---- MODULE Spec2Model ----
(***************************************************************************)
(* A model of src/downloader.py: the TikTokDownloader object, its adaptive *)
(* concurrency controller and the batch scheduler of download_all_videos.  *)
(*                                                                         *)
(* Time is time.time() in whole seconds since construction.                *)
(* success_rate_window is a Python list of 0/1 that the code only appends  *)
(* to, clears, and reads through len() and sum(); it is kept as a bag      *)
(* (the list without its order). The result lists are kept as bags of the  *)
(* outcomes' success flags: the code reads them through len() and the      *)
(* count of successes. The tasks of a batch are told apart by their state  *)
(* (submitted, running, done, collected), not by their URL.                *)
(*                                                                         *)
(* Two specifications: Spec is a run of main (connection test, then        *)
(* download_all_videos over the URL list); SpecCtl drives the controller   *)
(* state through the object's operations in any order, which a run of main *)
(* never does: no code calls _adaptive_concurrency_control.                *)
(***************************************************************************)
EXTENDS Integers, Sequences, FiniteSets, Bags, TLC

(* ------------------------------ bounds -------------------------------- *)
\* The clock stops advancing at MaxClock seconds after construction.
MaxClock == 540
\* One passage of time: the clock advances in steps of ClockStep seconds.
ClockStep == 30
\* Outcomes are recorded into the window while it holds fewer than MaxWindow.
MaxWindow == 21
\* During a run the clock is followed up to MaxRunClock seconds.
MaxRunClock == 60
\* The URL lists of a run: 0..SmallUrls URLs (one short batch), and
\* batch_size + 1 .. batch_size + ExtraUrls URLs (a full batch and a short one).
SmallUrls == 2
ExtraUrls == 1
\* The longest URL list of the runs that follow each counter update apart.
StatsUrls == 6
\* The runs that follow each task and each file: lists of 1..TaskUrls URLs
\* drawn from UrlValues URL values.
TaskUrls == 2
UrlValues == 3

(* ------------------------ program constants --------------------------- *)
initial_concurrency == 5
max_concurrency == 20
min_concurrency == 2
window_size == 20
adjustment_cooldown == 60
timeout == 45
result_grace == 30
batch_size == 30
exists_threshold == 1000
integrity_threshold == 10000

Min(a, b) == IF a < b THEN a ELSE b
Max(a, b) == IF a > b THEN a ELSE b

VARIABLES
    current_concurrency,   \* self.current_concurrency
    stats,                 \* self.stats
    success_rate_window,   \* self.success_rate_window
    last_adjustment,       \* self.last_adjustment
    now,                   \* time.time()
    max_current,           \* history: the largest value current_concurrency has held
    last,                  \* history: the operation that acted last, and the state it acted on
    pc,                    \* where the main thread is
    urls,                  \* the URL list read by main
    i,                     \* download_all_videos: the loop variable, the batch's offset
    pool_size,             \* download_batch: max_workers of the batch's executor
    queued,                \* tasks submitted to the executor and not yet taken by a worker
    running,               \* tasks a worker is executing
    finished,              \* done futures as_completed has not yet yielded (success flags)
    batch_results,         \* download_batch: results (success flags, order dropped)
    results,               \* download_all_videos: results (success flags, order dropped)
    pause_time,            \* download_all_videos: pause_time of the batch just analysed
    waited,                \* seconds the main thread has been blocked in as_completed
    trigger,               \* history: what an evaluation would have done in this batch
    prev,                  \* history: pool size and trigger of the previous batch
    window_appends,        \* history: number of appends to success_rate_window
    tested,                \* history: what test_connection returned
    indices,               \* history: the video_index of every task submitted, in order
    accounted,             \* running tasks between their two _update_stats calls (success flags)
    tasks,                 \* the calls of download_single_video followed one by one
    files,                 \* output_dir: for each filename, whether it exists and its size
    leftover               \* history: the filenames a failed task alone wrote in the run before

objvars == <<current_concurrency, stats, success_rate_window, last_adjustment,
             now, max_current, last>>
taskvars == <<tasks, files, leftover>>
auxvars == <<tested, indices, accounted, taskvars>>
runvars == <<pc, urls, i, pool_size, queued, running, finished, batch_results,
             results, pause_time, waited, trigger, prev, window_appends, auxvars>>
vars == <<objvars, runvars>>

(* ------------------------------ helpers ------------------------------- *)
\* len(self.success_rate_window) and sum(self.success_rate_window)
WindowLen(w) == BagCardinality(w)
WindowSum(w) == CopiesIn(1, w)
\* self.success_rate_window.append(x)
WindowAppend(w, x) == w (+) SetToBag({x})

\* The record of the operation that acted last.
NoOp ==
    [op |-> "none", fired |-> FALSE, cur |-> 0, adj |-> 0, peak |-> 0,
     la |-> 0, wlen |-> 0, wsum |-> 0, at |-> 0]

(* ------------------------- TikTokDownloader.__init__ ------------------ *)
InitStats ==
    [successful |-> 0, failed |-> 0, total |-> 0, processed |-> 0,
     sessions_created |-> 0, concurrency_adjustments |-> 0,
     peak_concurrency |-> initial_concurrency]

InitObject ==
    /\ current_concurrency = initial_concurrency
    /\ stats = InitStats
    /\ success_rate_window = EmptyBag
    /\ last_adjustment = 0
    /\ now = 0
    /\ max_current = initial_concurrency
    /\ last = NoOp

\* The run's variables before main has done anything with the URL list u.
InitRun(u, at) ==
    /\ pc = at
    /\ urls = u
    /\ i = 0
    /\ pool_size = 0
    /\ queued = 0
    /\ running = 0
    /\ finished = EmptyBag
    /\ batch_results = EmptyBag
    /\ results = EmptyBag
    /\ pause_time = 0
    /\ waited = 0
    /\ trigger = "none"
    /\ prev = [pool |-> 0, trigger |-> "none"]
    /\ window_appends = 0
    /\ tested = "untested"
    /\ indices = << >>
    /\ accounted = EmptyBag
    /\ tasks = << >>
    /\ leftover = {}

(* ------------------------------ _update_stats ------------------------- *)
\* Every value the code passes is an int, so isinstance(value, int) holds and
\* the branch is chosen by the key alone: += for a key of self.stats (also for
\* peak_concurrency), assignment for a new key.
UpdateStats(st, key, value) ==
    IF key \in DOMAIN st
    THEN [st EXCEPT ![key] = @ + value]
    ELSE [k \in DOMAIN st \cup {key} |-> IF k = key THEN value ELSE st[k]]

(* -------------------- _adaptive_concurrency_control ------------------- *)
\* EvaluationDue without the cooldown test.
EvaluationDueNoCooldown(w, la, t) == WindowLen(w) >= window_size
\* The early return of lines 363-365 is not taken.
EvaluationDue(w, la, t) ==
    ~(WindowLen(w) < window_size \/ t - la < adjustment_cooldown)

\* recent_success_rate > 0.90 and < 0.60, with the rate sum/len as a fraction.
\* RateHigh with >= in place of >.
RateHighInclusive(w) == 10 * WindowSum(w) >= 9 * WindowLen(w)
RateHigh(w) == 10 * WindowSum(w) > 9 * WindowLen(w)
RateLow(w) == 10 * WindowSum(w) < 6 * WindowLen(w)

\* ScaleUp without the cap of line 371.
ScaleUpUncapped(c) == c + 2
\* ScaleUp by a step of 1 instead of 2.
ScaleUpByOne(c) == Min(c + 1, max_concurrency)
ScaleUp(c) == Min(c + 2, max_concurrency)
\* ScaleDown without the floor of line 375.
ScaleDownUnfloored(c) == c - 2
ScaleDown(c) == Max(c - 2, min_concurrency)

\* The value of self.current_concurrency after lines 370-376.
Adjusted(c, w) ==
    IF RateHigh(w) /\ c < max_concurrency THEN ScaleUp(c)
    ELSE IF RateLow(w) /\ c > min_concurrency THEN ScaleDown(c)
    ELSE c

\* Lines 378-381: the statistics after a change from old to new.
AdjustStats(st, old, new) ==
    IF old # new
    THEN UpdateStats(UpdateStats(st, "concurrency_adjustments", 1),
                     "peak_concurrency", Max(st.peak_concurrency, new))
    ELSE st

AdaptiveConcurrencyControl ==
    LET due == EvaluationDue(success_rate_window, last_adjustment, now)
        new == Adjusted(current_concurrency, success_rate_window)
    IN  /\ last' = [op |-> "control", fired |-> due,
                    cur |-> current_concurrency,
                    adj |-> stats.concurrency_adjustments,
                    peak |-> stats.peak_concurrency,
                    la |-> last_adjustment,
                    wlen |-> WindowLen(success_rate_window),
                    wsum |-> WindowSum(success_rate_window),
                    at |-> now]
        /\ IF due
           THEN /\ current_concurrency' = new
                /\ stats' = AdjustStats(stats, current_concurrency, new)
                /\ last_adjustment' =
                       IF new # current_concurrency THEN now ELSE last_adjustment
                /\ success_rate_window' = EmptyBag
                /\ max_current' = Max(max_current, new)
           ELSE UNCHANGED <<current_concurrency, stats, last_adjustment,
                            success_rate_window, max_current>>
        /\ UNCHANGED <<now, runvars>>

(* --------------- the window as download_batch fills it ---------------- *)
\* Lines 319 and 336: one 1/0 entry per collected outcome.
RecordOutcome(s) ==
    /\ WindowLen(success_rate_window) < MaxWindow
    /\ success_rate_window' = WindowAppend(success_rate_window, s)
    /\ last' = NoOp
    /\ UNCHANGED <<current_concurrency, stats, last_adjustment, now, max_current>>
    /\ UNCHANGED runvars

(* ------------------------------- time --------------------------------- *)
Tick ==
    /\ now < MaxClock
    /\ now' = Min(now + ClockStep, MaxClock)
    /\ last' = NoOp
    /\ UNCHANGED <<current_concurrency, stats, success_rate_window,
                   last_adjustment, max_current>>
    /\ UNCHANGED runvars

(* ----- the controller driven through the object's own operations ------ *)
NextCtl ==
    \/ \E s \in {0, 1} : RecordOutcome(s)
    \/ Tick
    \/ AdaptiveConcurrencyControl

InitCtl == InitObject /\ InitRun(<< >>, "idle") /\ files = << >>

SpecCtl == InitCtl /\ [][NextCtl]_vars

(* =========================== the run of main ========================== *)
\* The URL lists main may read: urls[k] is the k-th URL of the file.
UrlLists ==
    { [k \in 1..n |-> k] :
        n \in (0..SmallUrls) \cup ((batch_size + 1)..(batch_size + ExtraUrls)) }

\* len(batch) for batch = urls[i:i + batch_size], and batch_num.
BatchLen == Min(batch_size, Len(urls) - i)
BatchNum == (i \div batch_size) + 1

(* --------------------------- test_connection -------------------------- *)
\* AfterTest that goes on whatever the test returned.
AfterTestIgnored(ok) == "start"
\* main, lines 458-463: where main goes after test_connection returned ok.
AfterTest(ok) == IF ok THEN "start" ELSE "exit"

\* main, lines 456-460: a failed test ends the process (sys.exit(1)).
TestConnection(ok) ==
    /\ pc = "test"
    /\ stats' = UpdateStats(stats, "sessions_created", 1)
    /\ pc' = AfterTest(ok)
    /\ UNCHANGED <<current_concurrency, success_rate_window, last_adjustment,
                   now, max_current, last>>
    /\ UNCHANGED <<urls, i, pool_size, queued, running, finished, batch_results,
                   results, pause_time, waited, trigger, prev, window_appends>>
    /\ tested' = (IF ok THEN "passed" ELSE "failed")
    /\ UNCHANGED <<indices, accounted, taskvars>>

(* ------------------------- download_single_video ---------------------- *)
\* How a task ends: the return statements of lines 216, 224, 239, 262, 267,
\* 271 and the except clause of line 273.
TaskKinds ==
    {"page_failed", "no_video_url", "already_exists", "download_failed",
     "too_small", "exception", "success"}

\* The bool of the returned tuple.
TaskSuccess(kind) == kind \in {"already_exists", "success"}

\* TaskStats without the update of 'processed'.
TaskStatsNoProcessed(st, kind) ==
    UpdateStats(st, IF TaskSuccess(kind) THEN "successful" ELSE "failed", 1)
\* The two _update_stats calls that precede every return.
TaskStats(st, kind) ==
    UpdateStats(
        UpdateStats(st, IF TaskSuccess(kind) THEN "successful" ELSE "failed", 1),
        "processed", 1)

\* A running task returns and its future is done; the main thread, if blocked
\* in as_completed, wakes. The worker takes the next submitted task, if any,
\* and enters download_single_video: create_unique_session counts the session.
TaskFinish(kind) ==
    /\ pc = "collect"
    /\ running > 0
    /\ running' = IF queued > 0 THEN running ELSE running - 1
    /\ queued' = IF queued > 0 THEN queued - 1 ELSE 0
    /\ stats' = LET st == TaskStats(stats, kind)
                IN  IF queued > 0 THEN UpdateStats(st, "sessions_created", 1)
                    ELSE st
    /\ finished' = finished (+) SetToBag({TaskSuccess(kind)})
    /\ waited' = 0
    /\ UNCHANGED <<current_concurrency, success_rate_window, last_adjustment,
                   now, max_current, last>>
    /\ UNCHANGED <<pc, urls, i, pool_size, batch_results, results,
                   pause_time, trigger, prev, window_appends>>
    /\ UNCHANGED auxvars

(* ------------------------------ download_batch ------------------------ *)
\* Line 303: video_index of the task at position p (from 0) of batch
\* batch_num, where n is len(urls), the length of the batch itself.
VideoIndex(batch_num, n, p) == (batch_num - 1) * n + p

\* WorkersStarted for an executor that gives every submitted task a thread.
WorkersStartedAll(max_workers, n) == n
\* The tasks that run at once when n are submitted to a pool of max_workers.
WorkersStarted(max_workers, n) == Min(max_workers, n)

\* Lines 296-305: the executor is built with max_workers = current_concurrency
\* and every URL of the batch submitted; each submit starts a worker thread
\* until max_workers exist, and each worker takes a task.
StartBatch ==
    /\ pc = "batch"
    /\ pool_size' = current_concurrency
    /\ running' = WorkersStarted(current_concurrency, BatchLen)
    /\ queued' = BatchLen - WorkersStarted(current_concurrency, BatchLen)
    /\ stats' = UpdateStats(stats, "sessions_created",
                            WorkersStarted(current_concurrency, BatchLen))
    /\ finished' = EmptyBag
    /\ batch_results' = EmptyBag
    /\ waited' = 0
    /\ prev' = [pool |-> pool_size, trigger |-> trigger]
    /\ trigger' = "none"
    /\ pc' = "collect"
    /\ UNCHANGED <<current_concurrency, success_rate_window, last_adjustment,
                   now, max_current, last>>
    /\ UNCHANGED <<urls, i, results, pause_time, window_appends>>
    /\ indices' = indices \o [p \in 1..BatchLen |->
                                   VideoIndex(BatchNum, BatchLen, p - 1)]
    /\ UNCHANGED <<tested, accounted, taskvars>>

\* What _adaptive_concurrency_control would do to current c on window w at
\* time t: "up", "down", "same" when it would fire, "none" when not due.
WouldTrigger(c, w, la, t) ==
    IF ~EvaluationDue(w, la, t) THEN "none"
    ELSE IF Adjusted(c, w) > c THEN "up"
    ELSE IF Adjusted(c, w) < c THEN "down"
    ELSE "same"

\* CollectResults that keeps only the successful outcomes.
CollectSuccessesOnly(res, success) ==
    IF success THEN res (+) SetToBag({success}) ELSE res
\* results.append({...}) of lines 313 and 329.
CollectResults(res, success) == res (+) SetToBag({success})

\* One iteration of the as_completed loop, lines 308-326: the future is done,
\* so future.result returns at once; the outcome is appended to results and
\* to the window. (_log_progress and the pacing sleep change no state. The
\* except clause of line 328 is never entered: download_single_video catches
\* every Exception itself, and a done future's result cannot time out.)
Collect(success) ==
    /\ pc = "collect"
    /\ CopiesIn(success, finished) > 0
    /\ finished' = finished (-) SetToBag({success})
    /\ batch_results' = CollectResults(batch_results, success)
    /\ success_rate_window' =
           WindowAppend(success_rate_window, IF success THEN 1 ELSE 0)
    /\ window_appends' = window_appends + 1
    /\ waited' = 0
    /\ trigger' =
           IF trigger = "none"
           THEN WouldTrigger(current_concurrency, success_rate_window',
                             last_adjustment, now)
           ELSE trigger
    /\ UNCHANGED <<current_concurrency, stats, last_adjustment, now,
                   max_current, last>>
    /\ UNCHANGED <<pc, urls, i, pool_size, queued, running, results,
                   pause_time, prev>>
    /\ UNCHANGED auxvars

\* as_completed has no done future to yield: the main thread stays blocked
\* while time passes.
Wait ==
    /\ pc = "collect"
    /\ finished = EmptyBag
    /\ running > 0
    /\ (now < MaxRunClock \/ waited <= timeout + result_grace)
    /\ now' = Min(now + ClockStep, MaxRunClock)
    /\ waited' = waited + ClockStep
    /\ UNCHANGED <<current_concurrency, stats, success_rate_window,
                   last_adjustment, max_current, last>>
    /\ UNCHANGED <<pc, urls, i, pool_size, queued, running, finished,
                   batch_results, results, pause_time, trigger, prev,
                   window_appends>>
    /\ UNCHANGED auxvars

(* ---------------------------- download_all_videos --------------------- *)
\* Lines 387-395.
StartAll ==
    /\ pc = "start"
    /\ stats' = [stats EXCEPT !.total = Len(urls)]
    /\ results' = EmptyBag
    /\ i' = 0
    /\ pc' = IF Len(urls) > 0 THEN "batch" ELSE "done"
    /\ UNCHANGED <<current_concurrency, success_rate_window, last_adjustment,
                   now, max_current, last>>
    /\ UNCHANGED <<urls, pool_size, queued, running, finished, batch_results,
                   pause_time, waited, trigger, prev, window_appends>>
    /\ UNCHANGED auxvars

\* random.uniform(lo, hi), sampled at its ends and its middle.
UniformSamples(lo, hi) == {lo, (lo + hi) \div 2, hi}

\* PauseRange with the tiers compared by <= and >=.
PauseRangeInclusive(successful, n) ==
    IF successful * 100 <= 50 * n THEN <<20, 30>>
    ELSE IF successful * 100 >= 90 * n THEN <<5, 10>>
    ELSE <<10, 15>>
\* Lines 428-434, for batch_success_rate = successful / n * 100.
PauseRange(successful, n) ==
    IF successful * 100 < 50 * n THEN <<20, 30>>
    ELSE IF successful * 100 > 90 * n THEN <<5, 10>>
    ELSE <<10, 15>>

\* BatchDrained that holds as soon as as_completed has nothing left to yield,
\* without the executor's wait for its workers.
BatchDrainedNoShutdownWait == finished = EmptyBag /\ batch_results # EmptyBag
\* download_batch returns: as_completed has yielded every future (line 308)
\* and the with block has left through shutdown(wait=True) (line 300).
BatchDrained == queued = 0 /\ running = 0 /\ finished = EmptyBag

\* Lines 402-437 once download_batch has returned (every future collected,
\* the executor shut down): the batch analysis and the choice of the pause.
EndBatch ==
    /\ pc = "collect"
    /\ BatchDrained
    /\ results' = results (+) batch_results
    /\ LET r == PauseRange(CopiesIn(TRUE, batch_results), BatchLen)
       IN  \E p \in UniformSamples(r[1], r[2]) : pause_time' = p
    /\ pc' = IF i + batch_size < Len(urls) THEN "pause" ELSE "done"
    /\ UNCHANGED objvars
    /\ UNCHANGED <<urls, i, pool_size, queued, running, finished, batch_results,
                   waited, trigger, prev, window_appends>>
    /\ UNCHANGED auxvars

\* time.sleep(pause_time) of line 437 returns and the loop goes on.
PauseEnd ==
    /\ pc = "pause"
    /\ now' = Min(now + pause_time, MaxRunClock)
    /\ i' = i + batch_size
    /\ pc' = "batch"
    /\ UNCHANGED <<current_concurrency, stats, success_rate_window,
                   last_adjustment, max_current, last>>
    /\ UNCHANGED <<urls, pool_size, queued, running, finished, batch_results,
                   results, pause_time, waited, trigger, prev, window_appends>>
    /\ UNCHANGED auxvars

Init == InitObject /\ files = << >> /\ \E u \in UrlLists : InitRun(u, "test")

Next ==
    \/ \E ok \in BOOLEAN : TestConnection(ok)
    \/ StartAll
    \/ StartBatch
    \/ \E kind \in TaskKinds : TaskFinish(kind)
    \/ \E success \in BOOLEAN : Collect(success)
    \/ Wait
    \/ EndBatch
    \/ PauseEnd

Spec == Init /\ [][Next]_vars

(* ======================= claims on the controller ===================== *)
\* The last operation was a controller evaluation that found a window of
\* exactly window_size outcomes with the cooldown elapsed.
EvaluatedFullWindow ==
    /\ last.op = "control"
    /\ last.wlen = window_size
    /\ last.at - last.la >= adjustment_cooldown

\* C2: current_concurrency stays within [min_concurrency, max_concurrency]
\* after any sequence of recorded outcomes and controller evaluations.
C2_ConcurrencyWithinBounds ==
    /\ min_concurrency <= current_concurrency
    /\ current_concurrency <= max_concurrency

\* C2 witness: an evaluation has just raised current from 19 to the cap.
C2_Witness ==
    /\ last.op = "control"
    /\ last.cur = max_concurrency - 1
    /\ current_concurrency = max_concurrency

\* C3: an evaluation on 20 outcomes with a success rate above 90%, the
\* cooldown elapsed and current < max sets current to min(current + 2, max),
\* adds 1 to concurrency_adjustments, sets last_adjustment to the evaluation
\* time and empties the window.
C3_ScaleUpOnHighRate ==
    (EvaluatedFullWindow /\ 10 * last.wsum > 9 * last.wlen
        /\ last.cur < max_concurrency)
    => /\ current_concurrency = Min(last.cur + 2, max_concurrency)
       /\ stats.concurrency_adjustments = last.adj + 1
       /\ last_adjustment = last.at
       /\ success_rate_window = EmptyBag

\* C3 witness: 19 of 20 succeeded and the evaluation acted on current = 7.
C3_Witness ==
    /\ EvaluatedFullWindow
    /\ last.wsum = 19
    /\ last.cur = 7
    /\ current_concurrency = 9

\* C4: an evaluation on 20 outcomes with a success rate below 60%, the
\* cooldown elapsed and current > min sets current to max(current - 2, min),
\* adds 1 to concurrency_adjustments, sets last_adjustment to the evaluation
\* time and empties the window.
C4_ScaleDownOnLowRate ==
    (EvaluatedFullWindow /\ 10 * last.wsum < 6 * last.wlen
        /\ last.cur > min_concurrency)
    => /\ current_concurrency = Max(last.cur - 2, min_concurrency)
       /\ stats.concurrency_adjustments = last.adj + 1
       /\ last_adjustment = last.at
       /\ success_rate_window = EmptyBag

\* C4 witness: 11 of 20 succeeded and the evaluation took current from 3 to
\* the floor.
C4_Witness ==
    /\ EvaluatedFullWindow
    /\ last.wsum = 11
    /\ last.cur = 3
    /\ current_concurrency = min_concurrency

\* The cases of C5: the hysteresis band, or a rate that asks for a change
\* current cannot make.
NoChangeCase ==
    \/ (6 * last.wlen <= 10 * last.wsum /\ 10 * last.wsum <= 9 * last.wlen)
    \/ (10 * last.wsum > 9 * last.wlen /\ last.cur = max_concurrency)
    \/ (10 * last.wsum < 6 * last.wlen /\ last.cur = min_concurrency)

\* C5: an evaluation that fires in the band 60%..90% inclusive, or above 90%
\* at current = max, or below 60% at current = min, leaves current,
\* concurrency_adjustments, peak_concurrency and last_adjustment unchanged
\* and empties the window.
C5_NoChangeStillClears ==
    (EvaluatedFullWindow /\ NoChangeCase)
    => /\ current_concurrency = last.cur
       /\ stats.concurrency_adjustments = last.adj
       /\ stats.peak_concurrency = last.peak
       /\ last_adjustment = last.la
       /\ success_rate_window = EmptyBag

\* C5 witness: 18 of 20 succeeded (exactly 90%) and the evaluation has run.
C5_Witness ==
    /\ EvaluatedFullWindow
    /\ last.wsum = 18
    /\ success_rate_window = EmptyBag

\* C6: peak_concurrency equals the largest value current_concurrency has
\* held since construction.
C6_PeakIsMaxCurrent == stats.peak_concurrency = max_current

(* ========================== claims on the run ========================= *)
\* C1: when download_all_videos returns, processed = successful + failed and
\* total = len(urls), whatever the outcomes of the tasks were.
C1_StatsAtReturn ==
    pc = "done" =>
        /\ stats.processed = stats.successful + stats.failed
        /\ stats.total = Len(urls)

\* C1 witness: a run of two batches has returned with successes and failures.
C1_Witness ==
    /\ pc = "done"
    /\ Len(urls) > batch_size
    /\ stats.successful > 0
    /\ stats.failed > 0

\* C7: when, during a batch, the window reached 20 outcomes with a success
\* rate above 90% (below 60%) and the cooldown had elapsed, the pool of the
\* next batch is larger (smaller) than the pool of that batch.
C7_NextPoolFollowsController ==
    pc = "collect" =>
        /\ prev.trigger = "up" => pool_size > prev.pool
        /\ prev.trigger = "down" => pool_size < prev.pool

\* C8: the returned results hold one outcome per input URL, and one entry per
\* task was appended to the window, whatever faults the tasks met.
C8_OneOutcomePerUrl ==
    pc = "done" =>
        /\ BagCardinality(results) = Len(urls)
        /\ window_appends = Len(urls)

\* C8 witness: a run of two batches has returned although tasks of the first
\* batch and the task of the second batch failed.
C8_Witness ==
    /\ pc = "done"
    /\ Len(urls) = batch_size + 1
    /\ CopiesIn(FALSE, results) > 1
    /\ CopiesIn(FALSE, batch_results) = 1
    /\ CopiesIn(TRUE, results) > 0

\* C9: the scheduler never stays blocked on a task for longer than the task
\* timeout plus the grace period: after 75 s it gives the task up.
C9_WaitIsBounded ==
    pc = "collect" => waited <= timeout + result_grace

\* C10: the pause slept after a non-final batch lies in [20, 30] for a batch
\* success rate below 50%, in [5, 10] for a rate above 90% and in [10, 15]
\* otherwise; after the final batch there is no pause.
C10_PauseTiers ==
    pc = "pause" =>
        LET k == CopiesIn(TRUE, batch_results)
            n == BatchLen
        IN  /\ i + batch_size < Len(urls)
            /\ 2 * k < n => pause_time \in 20..30
            /\ 10 * k > 9 * n => pause_time \in 5..10
            /\ (2 * k >= n /\ 10 * k <= 9 * n) => pause_time \in 10..15

\* C10 witness: the pause after a batch in which exactly 90% succeeded.
C10_Witness ==
    /\ pc = "pause"
    /\ 10 * CopiesIn(TRUE, batch_results) = 9 * BatchLen
    /\ pause_time \in 10..15

\* C13: batches are strictly sequential: whenever the scheduler is between
\* two batches (about to build the next pool, pausing, or returned), no task
\* of an earlier batch is submitted, running or waiting to be collected, so
\* tasks of two batches are never in flight together.
C13_BatchesSequential ==
    pc \in {"batch", "pause", "done"} =>
        /\ queued = 0
        /\ running = 0
        /\ finished = EmptyBag

\* C13 witness: the second batch is about to be submitted after a first batch
\* of batch_size tasks has been collected.
C13_Witness ==
    /\ pc = "batch"
    /\ i = batch_size
    /\ BagCardinality(results) = batch_size
    /\ running = 0

\* C14: when the connectivity pre-test fails, the run is aborted before any
\* processing: no batch is started, no task submitted, and processed,
\* successful and failed stay 0.
C14_FailedTestAborts ==
    tested = "failed" =>
        /\ pc = "exit"
        /\ pool_size = 0
        /\ indices = << >>
        /\ queued = 0 /\ running = 0 /\ finished = EmptyBag
        /\ stats.processed = 0 /\ stats.successful = 0 /\ stats.failed = 0

\* C14 witness: the test has failed on a list of two batches.
C14_Witness ==
    /\ tested = "failed"
    /\ pc = "exit"
    /\ Len(urls) > batch_size

\* C15: the index given to the task at position p of batch b is
\* (b - 1) * 30 + p: the k-th task submitted in the run has index k - 1, the
\* position of its URL in the input list, so indices are distinct and rising.
C15_IndicesArePositions ==
    \A k \in 1..Len(indices) : indices[k] = k - 1

\* C16: the success-rate window never holds more than window_size outcomes.
C16_WindowBounded == WindowLen(success_rate_window) <= window_size

\* An evaluation has just run with fewer than window_size outcomes in the
\* window or less than adjustment_cooldown seconds after last_adjustment.
EvaluatedTooEarly ==
    /\ last.op = "control"
    /\ (last.wlen < window_size \/ last.at - last.la < adjustment_cooldown)

\* C17: an evaluation invoked with fewer than 20 outcomes in the window, or
\* less than 60 s after last_adjustment, leaves current, the window,
\* last_adjustment, concurrency_adjustments and peak_concurrency as they were;
\* an evaluation that changes current runs at least 60 s after the previous
\* change (or after construction).
C17_EarlyEvaluationChangesNothing ==
    /\ EvaluatedTooEarly =>
           /\ current_concurrency = last.cur
           /\ WindowLen(success_rate_window) = last.wlen
           /\ WindowSum(success_rate_window) = last.wsum
           /\ last_adjustment = last.la
           /\ stats.concurrency_adjustments = last.adj
           /\ stats.peak_concurrency = last.peak
    /\ (last.op = "control" /\ current_concurrency # last.cur) =>
           /\ last.at - last.la >= adjustment_cooldown
           /\ last_adjustment = last.at

\* C17 witness: an evaluation has run on a full window of successes 30 s
\* after an earlier change of current, and nothing has changed.
C17_Witness ==
    /\ EvaluatedTooEarly
    /\ last.wlen = window_size
    /\ last.wsum = window_size
    /\ last.la = adjustment_cooldown
    /\ last.at = adjustment_cooldown + ClockStep
    /\ last.cur = initial_concurrency + 2
    /\ WindowLen(success_rate_window) = window_size

(* ------------- the run with evaluations by another thread ------------- *)
\* No code of the repository calls _adaptive_concurrency_control, so in Spec
\* current_concurrency never changes. SpecOpen adds a caller: while a batch is
\* in progress another thread runs the method, once, at any moment at which
\* the evaluation is due (a call that is not due returns at line 365 and has
\* no effect). Every behaviour of Spec is a behaviour of SpecOpen.
ConcurrentEvaluation ==
    /\ pc = "collect"
    /\ last.op = "none"
    /\ EvaluationDue(success_rate_window, last_adjustment, now)
    /\ AdaptiveConcurrencyControl

NextOpen ==
    \/ Next
    \/ ConcurrentEvaluation

SpecOpen == Init /\ [][NextOpen]_vars

\* C18: the pool of a batch has the size current_concurrency had when the
\* batch started, it keeps that size until the batch has finished whatever
\* happens to current_concurrency, and no more tasks than that run at once.
C18_PoolFixedForBatch ==
    [][ /\ (pc = "batch" /\ pc' = "collect") => pool_size' = current_concurrency
        /\ (pc = "collect" /\ pc' = "collect") => pool_size' = pool_size
        /\ pc' = "collect" => running' <= pool_size' ]_vars

\* C18 witness: current_concurrency has changed during the batch while as
\* many tasks as the pool's size are running.
C18_Witness ==
    /\ pc = "collect"
    /\ current_concurrency # pool_size
    /\ running = pool_size
    /\ queued > 0

(* ------------- the run with the two counter updates apart ------------- *)
\* Every return of download_single_video is preceded by two calls of
\* _update_stats, each taking and releasing stats_lock on its own. SpecStats
\* is the run of Spec with a task's end split at that point: TaskAccount is
\* the first call, TaskReturn the second call and the return.
\* The first call: _update_stats('successful') or _update_stats('failed').
TaskAccount(kind) ==
    /\ pc = "collect"
    /\ running > BagCardinality(accounted)
    /\ stats' = UpdateStats(stats,
                            IF TaskSuccess(kind) THEN "successful" ELSE "failed", 1)
    /\ accounted' = accounted (+) SetToBag({TaskSuccess(kind)})
    /\ UNCHANGED <<current_concurrency, success_rate_window, last_adjustment,
                   now, max_current, last>>
    /\ UNCHANGED <<pc, urls, i, pool_size, queued, running, finished,
                   batch_results, results, pause_time, waited, trigger, prev,
                   window_appends, tested, indices, taskvars>>

\* The second call, _update_stats('processed'), and the return: the future is
\* done and the worker takes the next submitted task, if any.
TaskReturn(success) ==
    /\ pc = "collect"
    /\ CopiesIn(success, accounted) > 0
    /\ accounted' = accounted (-) SetToBag({success})
    /\ running' = IF queued > 0 THEN running ELSE running - 1
    /\ queued' = IF queued > 0 THEN queued - 1 ELSE 0
    /\ stats' = LET st == UpdateStats(stats, "processed", 1)
                IN  IF queued > 0 THEN UpdateStats(st, "sessions_created", 1)
                    ELSE st
    /\ finished' = finished (+) SetToBag({success})
    /\ waited' = 0
    /\ UNCHANGED <<current_concurrency, success_rate_window, last_adjustment,
                   now, max_current, last>>
    /\ UNCHANGED <<pc, urls, i, pool_size, batch_results, results,
                   pause_time, trigger, prev, window_appends, tested, indices, taskvars>>

\* Lists of at most one batch, long enough for a progress log to fall while
\* a later task of the batch is still running; no pause between batches occurs.
ShortUrlLists == { [k \in 1..n |-> k] : n \in 0..StatsUrls }

InitShort ==
    InitObject /\ files = << >> /\ \E u \in ShortUrlLists : InitRun(u, "test")

NextStats ==
    \/ \E ok \in BOOLEAN : TestConnection(ok)
    \/ StartAll
    \/ StartBatch
    \/ \E kind \in TaskKinds : TaskAccount(kind)
    \/ \E success \in BOOLEAN : TaskReturn(success)
    \/ \E success \in BOOLEAN : Collect(success)
    \/ Wait
    \/ EndBatch

SpecStats == InitShort /\ [][NextStats]_vars

\* Line 323: _log_progress is called after this many outcomes of a batch of n.
LogDue(completed, n) == completed % 5 = 0 \/ completed = n

\* C19: the snapshot _log_progress takes through _get_current_stats, right
\* after the outcome that makes the log due has been collected, has
\* processed = successful + failed and processed <= total.
C19_SnapshotConsistent ==
    [][ ( /\ pc = "collect"
          /\ BagCardinality(batch_results') = BagCardinality(batch_results) + 1
          /\ LogDue(BagCardinality(batch_results'), BatchLen) )
        => /\ stats'.processed = stats'.successful + stats'.failed
           /\ stats'.processed <= stats'.total ]_vars

(* ========= download_single_video, task by task, with its files ======== *)
\* The filename download_single_video derives for URL value u (lines 227-233):
\* uploader, description and video id of the video. URL value UrlValues is a
\* second address of the video of URL value 1; the others are videos of
\* their own.
Filename(u) == IF u = UrlValues THEN 1 ELSE u
Filenames == { Filename(u) : u \in 1..UrlValues }

TaskUrlLists == UNION { [1..n -> 1..UrlValues] : n \in 1..TaskUrls }

\* A filename of output_dir: absent, or present with a size around the
\* threshold of the exists check.
NoFile == [exists |-> FALSE, size |-> 0]
ExistingFiles ==
    { NoFile,
      [exists |-> TRUE, size |-> exists_threshold],
      [exists |-> TRUE, size |-> exists_threshold + 1] }

\* The sizes of a media body, around the integrity threshold.
BodySizes ==
    {integrity_threshold - 1, integrity_threshold, integrity_threshold + 1}

\* Line 236 with the threshold of line 258.
AlreadyDownloadedIntact(size) == size > integrity_threshold
\* Line 236: os.path.getsize(filepath) > 1000.
AlreadyDownloaded(size) == size > exists_threshold

\* Line 258: file_size > 10000.
Intact(size) == size > integrity_threshold

\* A call download_single_video(url, index) about to start. at is the
\* position in the code and kind how the call ends; the other fields are
\* history: the sizes the two getsize calls returned, the media requests
\* sent, whether the call opened, wrote or removed the file, and what it
\* added to the counters.
NewTask(u, index) ==
    [url |-> u, index |-> index, at |-> "fetch_page", kind |-> "none",
     existing |-> 0, sized |-> FALSE, final |-> 0, requests |-> 0,
     touched |-> FALSE, removed |-> FALSE,
     successful |-> 0, failed |-> 0, processed |-> 0]

InitTasks ==
    /\ InitObject
    /\ \E u \in TaskUrlLists : InitRun(u, "submit")
    /\ files \in [Filenames -> ExistingFiles]

\* What the steps of a task leave alone.
TaskFrame ==
    UNCHANGED <<current_concurrency, success_rate_window, last_adjustment, now,
                max_current, last, pc, urls, i, pool_size, queued, running,
                finished, batch_results, results, pause_time, waited, trigger,
                prev, window_appends, tested, indices, accounted, leftover>>

\* The task t ends with kind: control goes to the two _update_stats calls.
Ends(t, kind) == [tasks EXCEPT ![t].kind = kind, ![t].at = "account"]

\* Lines 387 and 300-305 for a list that fits one batch and one pool: every
\* URL is submitted and every task starts in a worker of its own.
SubmitTasks ==
    /\ pc = "submit"
    /\ pc' = "tasks"
    /\ stats' = [stats EXCEPT !.total = Len(urls)]
    /\ tasks' = [k \in 1..Len(urls) |->
                    NewTask(urls[k], VideoIndex(1, Len(urls), k - 1))]
    /\ UNCHANGED <<current_concurrency, success_rate_window, last_adjustment,
                   now, max_current, last, urls, i, pool_size, queued, running,
                   finished, batch_results, results, pause_time, waited,
                   trigger, prev, window_appends, tested, indices, accounted,
                   files, leftover>>

\* Lines 207-224: the session, the page request and the extraction.
FetchPage(t, outcome) ==
    /\ pc = "tasks"
    /\ tasks[t].at = "fetch_page"
    /\ stats' = UpdateStats(stats, "sessions_created", 1)
    /\ tasks' = IF outcome = "ok"
                THEN [tasks EXCEPT ![t].at = "exists"]
                ELSE Ends(t, outcome)
    /\ UNCHANGED files
    /\ TaskFrame

\* Line 236, left operand: os.path.exists(filepath).
CheckExists(t) ==
    /\ pc = "tasks"
    /\ tasks[t].at = "exists"
    /\ tasks' = [tasks EXCEPT ![t].at =
                    IF files[Filename(tasks[t].url)].exists
                    THEN "getsize_existing" ELSE "get_media"]
    /\ UNCHANGED <<stats, files>>
    /\ TaskFrame

\* Line 236, right operand: os.path.getsize raises when the file is gone.
GetSizeExisting(t) ==
    LET f == files[Filename(tasks[t].url)]
    IN  /\ pc = "tasks"
        /\ tasks[t].at = "getsize_existing"
        /\ tasks' =
               IF ~f.exists THEN Ends(t, "exception")
               ELSE IF AlreadyDownloaded(f.size)
               THEN [Ends(t, "already_exists") EXCEPT ![t].existing = f.size]
               ELSE [tasks EXCEPT ![t].existing = f.size, ![t].at = "get_media"]
        /\ UNCHANGED <<stats, files>>
        /\ TaskFrame

\* Lines 248-271: the media request and its status.
GetMedia(t, outcome) ==
    /\ pc = "tasks"
    /\ tasks[t].at = "get_media"
    /\ tasks' = IF outcome = "ok"
                THEN [tasks EXCEPT ![t].requests = @ + 1, ![t].at = "open"]
                ELSE [Ends(t, outcome) EXCEPT ![t].requests = @ + 1]
    /\ UNCHANGED <<stats, files>>
    /\ TaskFrame

\* Line 250: open(filepath, 'wb') creates the file or truncates it.
OpenFile(t) ==
    /\ pc = "tasks"
    /\ tasks[t].at = "open"
    /\ files' = [files EXCEPT ![Filename(tasks[t].url)] =
                    [exists |-> TRUE, size |-> 0]]
    /\ tasks' = [tasks EXCEPT ![t].touched = TRUE, ![t].at = "write"]
    /\ UNCHANGED stats
    /\ TaskFrame

\* Lines 251-254: the body of size b is written from offset 0 and the file
\* closed. A file removed meanwhile stays removed: the bytes go to the
\* unlinked file.
WriteBody(t, b) ==
    LET name == Filename(tasks[t].url)
    IN  /\ pc = "tasks"
        /\ tasks[t].at = "write"
        /\ files' = IF files[name].exists
                    THEN [files EXCEPT ![name].size = Max(@, b)]
                    ELSE files
        /\ tasks' = [tasks EXCEPT ![t].at = "getsize"]
        /\ UNCHANGED stats
        /\ TaskFrame

\* The bytes written before a stream breaks: none, or a first part of the
\* body longer than the threshold of the exists check.
PartialSizes == {0, exists_threshold + 1}

\* Lines 251-253 and 273-276: iter_content raises after n bytes have been
\* written; the with block closes the file and the except clause counts the
\* failure. Nothing removes the file.
StreamFails(t, n) ==
    LET name == Filename(tasks[t].url)
    IN  /\ pc = "tasks"
        /\ tasks[t].at = "write"
        /\ files' = IF files[name].exists
                    THEN [files EXCEPT ![name].size = Max(@, n)]
                    ELSE files
        /\ tasks' = Ends(t, "exception")
        /\ UNCHANGED stats
        /\ TaskFrame

\* Lines 256-262: os.path.getsize(filepath) and the integrity test.
GetSize(t) ==
    LET f == files[Filename(tasks[t].url)]
    IN  /\ pc = "tasks"
        /\ tasks[t].at = "getsize"
        /\ tasks' =
               IF ~f.exists THEN Ends(t, "exception")
               ELSE IF Intact(f.size)
               THEN [Ends(t, "success") EXCEPT ![t].sized = TRUE,
                                               ![t].final = f.size]
               ELSE [tasks EXCEPT ![t].sized = TRUE, ![t].final = f.size,
                                  ![t].at = "remove"]
        /\ UNCHANGED <<stats, files>>
        /\ TaskFrame

\* Lines 264-267: os.remove(filepath) raises when the file is gone.
RemoveFile(t) ==
    LET name == Filename(tasks[t].url)
    IN  /\ pc = "tasks"
        /\ tasks[t].at = "remove"
        /\ IF files[name].exists
           THEN /\ files' = [files EXCEPT ![name] = NoFile]
                /\ tasks' = [Ends(t, "too_small") EXCEPT ![t].removed = TRUE]
           ELSE /\ files' = files
                /\ tasks' = Ends(t, "exception")
        /\ UNCHANGED stats
        /\ TaskFrame

\* The first _update_stats call before a return.
Account(t) ==
    LET key == IF TaskSuccess(tasks[t].kind) THEN "successful" ELSE "failed"
    IN  /\ pc = "tasks"
        /\ tasks[t].at = "account"
        /\ stats' = UpdateStats(stats, key, 1)
        /\ tasks' = [tasks EXCEPT ![t][key] = @ + 1,
                                  ![t].at = "count_processed"]
        /\ UNCHANGED files
        /\ TaskFrame

\* _update_stats('processed') and the return.
CountProcessed(t) ==
    /\ pc = "tasks"
    /\ tasks[t].at = "count_processed"
    /\ stats' = UpdateStats(stats, "processed", 1)
    /\ tasks' = [tasks EXCEPT ![t].processed = @ + 1, ![t].at = "done"]
    /\ UNCHANGED files
    /\ TaskFrame

\* The task t opened its file for writing and returned a failure, and no
\* other task of the run opened the same file.
LeftByFailure(t) ==
    /\ tasks[t].at = "done"
    /\ tasks[t].touched
    /\ ~TaskSuccess(tasks[t].kind)
    /\ \A o \in DOMAIN tasks \ {t} :
           Filename(tasks[o].url) = Filename(tasks[t].url) => ~tasks[o].touched

\* main is run again on the same URL file once every task has returned: a
\* new process with a new TikTokDownloader, over the output_dir as the run
\* before left it.
RunAgain ==
    /\ pc = "tasks"
    /\ \A t \in DOMAIN tasks : tasks[t].at = "done"
    /\ pc' = "submit"
    /\ stats' = InitStats
    /\ tasks' = << >>
    /\ leftover' = { Filename(tasks[t].url) :
                        t \in { o \in DOMAIN tasks : LeftByFailure(o) } }
    /\ UNCHANGED <<current_concurrency, success_rate_window, last_adjustment,
                   now, max_current, last, urls, i, pool_size, queued, running,
                   finished, batch_results, results, pause_time, waited,
                   trigger, prev, window_appends, tested, indices, accounted,
                   files>>

NextTasks ==
    \/ SubmitTasks
    \/ \E t \in DOMAIN tasks :
          \E o \in {"ok", "page_failed", "no_video_url", "exception"} :
              FetchPage(t, o)
    \/ \E t \in DOMAIN tasks : CheckExists(t)
    \/ \E t \in DOMAIN tasks : GetSizeExisting(t)
    \/ \E t \in DOMAIN tasks :
          \E o \in {"ok", "download_failed", "exception"} : GetMedia(t, o)
    \/ \E t \in DOMAIN tasks : OpenFile(t)
    \/ \E t \in DOMAIN tasks : \E b \in BodySizes : WriteBody(t, b)
    \/ \E t \in DOMAIN tasks : \E n \in PartialSizes : StreamFails(t, n)
    \/ \E t \in DOMAIN tasks : GetSize(t)
    \/ \E t \in DOMAIN tasks : RemoveFile(t)
    \/ \E t \in DOMAIN tasks : Account(t)
    \/ \E t \in DOMAIN tasks : CountProcessed(t)
    \/ RunAgain

SpecTasks == InitTasks /\ [][NextTasks]_vars

\* C11: a task whose exists check found a file of more than 1000 bytes at
\* its target path ends as "already exists" with success, sends no request
\* to the media URL, does not open, write or remove the file, and adds one
\* to successful and one to processed, once, and nothing to failed.
C11_ExistingFileIsSuccess ==
    \A t \in DOMAIN tasks :
        tasks[t].existing > exists_threshold =>
            /\ tasks[t].kind = "already_exists"
            /\ TaskSuccess(tasks[t].kind)
            /\ tasks[t].requests = 0
            /\ ~tasks[t].touched
            /\ tasks[t].failed = 0
            /\ tasks[t].successful <= 1
            /\ tasks[t].processed <= tasks[t].successful
            /\ tasks[t].at = "done" =>
                   /\ tasks[t].successful = 1
                   /\ tasks[t].processed = 1
                   /\ (Len(urls) = 1 =>
                           /\ files[Filename(tasks[t].url)].size = tasks[t].existing
                           /\ stats.successful = 1 /\ stats.processed = 1)

\* C11 witness: the only task of a run has returned after finding a file of
\* 1001 bytes.
C11_Witness ==
    /\ Len(urls) = 1
    /\ pc = "tasks"
    /\ tasks[1].at = "done"
    /\ tasks[1].existing = exists_threshold + 1

\* What a task that has measured its downloaded file does, given the test
\* keeps(size) for keeping it: a kept file means success and no removal;
\* otherwise the task goes on to remove the file and returns a failure,
\* "too small" once it has removed it.
IntegrityOutcome(t, keeps) ==
    tasks[t].sized =>
        IF keeps
        THEN /\ tasks[t].kind = "success"
             /\ ~tasks[t].removed
             /\ tasks[t].failed = 0
        ELSE /\ tasks[t].kind \in {"none", "too_small", "exception"}
             /\ tasks[t].kind = "none" <=> tasks[t].at = "remove"
             /\ tasks[t].kind = "too_small" <=> tasks[t].removed
             /\ tasks[t].successful = 0

\* C12 as stated: below 10,000 bytes the file is deleted and the task
\* fails; at 10,000 bytes or more the file is kept and the task succeeds.
C12_KeptFromThreshold ==
    \A t \in DOMAIN tasks :
        IntegrityOutcome(t, tasks[t].final >= integrity_threshold)

\* The task t is between open(filepath, 'wb') and the end of its size check
\* or removal: it has the file open for writing, is about to measure it or
\* about to remove it.
InFileSection(t) == tasks[t].at \in {"write", "getsize", "remove"}

\* C20: no two tasks are at the same time writing, measuring or removing the
\* same target file.
C20_OneTaskPerFile ==
    \A t1, t2 \in DOMAIN tasks :
        (t1 # t2 /\ Filename(tasks[t1].url) = Filename(tasks[t2].url)) =>
            ~(InFileSection(t1) /\ InFileSection(t2))

\* A task that alone opened its media file for writing and returned a
\* failure (the file too small, or an exception while streaming) has left no
\* file on disk.
FailedTaskLeavesNoFile ==
    \A t \in DOMAIN tasks :
        LeftByFailure(t) => ~files[Filename(tasks[t].url)].exists

\* No task of a later run returns "already exists" for a file that a failed
\* task of the run before wrote and no task of the later run has opened.
LaterRunFindsNoLeftover ==
    \A t \in DOMAIN tasks :
        ( /\ tasks[t].kind = "already_exists"
          /\ \A o \in DOMAIN tasks :
                 Filename(tasks[o].url) = Filename(tasks[t].url)
                     => ~tasks[o].touched )
        => Filename(tasks[t].url) \notin leftover

\* C21: when a task that started writing a media file ends with a failure,
\* the file it wrote is no longer on disk when the task returns, and a later
\* run for the same URL never reports "already exists" for such a file.
C21_FailedTaskLeavesNoFile ==
    /\ FailedTaskLeavesNoFile
    /\ LaterRunFindsNoLeftover

====
